---- MODULE Spec2Model ----
(***************************************************************************)
(* Model of anju-gujiguji: the deduplicating texture cache (TextureLoader, *)
(* src/src/textureLoader.ts), the renderer that uses it (WebGPURenderer,   *)
(* src/src/renderer.ts, src/src/shaders.ts) and the page around them       *)
(* (src/src/main.ts).                                                      *)
(*                                                                         *)
(* JavaScript runs every synchronous stretch of code to completion, and    *)
(* drains the microtask queue before the next task (timer, input event,    *)
(* fetch/decode completion) starts.  An action of the model is therefore   *)
(* one such stretch: the code from a call or a resumption up to the next   *)
(* await.  The settling of the promise of _loadTextureInternal and the     *)
(* continuation of the loadTexture call that started it (the first         *)
(* reaction registered on that promise) run back to back, with no call of  *)
(* loadTexture in between, and are one action.                             *)
(*                                                                         *)
(* Specifications:                                                         *)
(*   Spec          TextureLoader driven by arbitrary callers of            *)
(*                 loadTexture (the class is exported and takes its        *)
(*                 capacity as a constructor argument)                     *)
(*   SpawnSpec     the renderer: addParticle invocations over the          *)
(*                 TextureLoader built in createAssets                     *)
(*   FrameSpec     the renderer with its frame loop: addParticle           *)
(*                 invocations and renderLoop ticks                        *)
(*   ShaderSpec    the compute shader's main applied to one particle,      *)
(*                 over a range of inputs                                  *)
(*   PageSpec      the page from its load: bootstrap with or without a     *)
(*                 usable GPU, window resizes, clicks on the add button    *)
(*   ButtonSpec    the add button's mouse and touch handlers with their    *)
(*                 hold timeout and spawn interval (setupButtonEvents)     *)
(*   LiveSpec      Spec, with every pending fetch/decode ending            *)
(*   OverlapSpec   the renderer: addParticle invocations that overlap,     *)
(*                 within a budget of spawn attempts                       *)
(*   ClearSpec     Spec with callers of clear() as well                    *)
(*   VoiceSpec     the VoiceLoader (src/unnamed/part_001): consumeAudio    *)
(*                 called at any time, and its loads                       *)
(*   VoiceLiveSpec VoiceSpec, with consumeAudio called again and again and *)
(*                 every load ending                                       *)
(* The VoiceLoader shares no state with the renderer and the button: the   *)
(* shotVoice calls of the handlers are the Consume steps of VoiceSpec, and *)
(* the other specifications leave the VoiceLoader out.                     *)
(* clear() has no caller in the repository and is in ClearSpec only.       *)
(*                                                                         *)
(* Numbers of the shader are on an integer grid: lengths in twentieths of  *)
(* the viewport half-height, scale in tenths, time in units of 0.05 s      *)
(* (in seconds for ScenarioInput, whose velocity is per second).           *)
(***************************************************************************)
EXTENDS Integers, Sequences, FiniteSets, TLC

\* ---------------------------------------------------------------- bounds
\* capacity handed to the TextureLoader constructor (IMAGE_URLS.length in
\* createAssets); scaled down
maxTextures == 2
\* URLs a caller may ask for: one more than the capacity, so that the
\* capacity can be exceeded
NumUrls == maxTextures + 1
\* loadTexture calls in one behaviour of Spec
MaxCalls == 4
\* MAX_PARTICLES of config.ts (10000 there), scaled down so that the particle
\* buffers fill up
MAX_PARTICLES == 4
\* addParticle invocations in one behaviour of SpawnSpec
MaxInvocations == 2
\* failed fetches / decodes in one behaviour
MaxFailures == 2
\* renderLoop ticks in one behaviour of FrameSpec
MaxFrames == 2
\* spawn attempts (passes of addParticle's loop) in one behaviour of FrameSpec
MaxAttempts == 5
\* applications of the shader to the particle of ShaderSpec
MaxSteps == 2
\* spawn attempts in one behaviour of PageSpec
MaxPageAttempts == 4
\* spawn attempts in one behaviour of ButtonSpec
MaxHandlerAttempts == 6
\* spawn attempts in one behaviour of OverlapSpec: two batches
MaxOverlapAttempts == 6
\* timers (timeouts and intervals) set in one behaviour of ButtonSpec
MaxTimers == 3
\* VOICE_TOTAL_COUNT of config.ts (128 there), scaled down
VOICE_TOTAL_COUNT == 3
\* VOICE_INITIAL_LOAD of config.ts (10 there), scaled down
VOICE_INITIAL_LOAD == 1
\* failed fetches / decodings of audios that are not bound to fail, in one
\* behaviour of VoiceSpec
MaxVoiceFailures == 1

Urls == 1..NumUrls

\* IMAGE_URLS of config.ts: as many as the texture array has layers
IMAGE_URLS == 1..maxTextures

BatchOfOne == {1}

\* let cnt = Math.round(Math.random() * 3 + 2.5): Math.random() is in [0, 1)
BatchSizes == {3, 4, 5}

\* the random initial velocities of a new particle (two representatives)
Velocities == {<<1, 0>>}

\* staticData[2] = (Math.random() - 0.5) * 5.0 (one representative)
AngularVelocities == {1}

\* deltaTime of a frame: 0.016 on the first tick, else the time since the
\* last tick capped at 0.1 s, which is 2 units
DeltaTimes == {1, 2}

\* canvas.clientWidth / canvas.clientHeight: 1.0 and 0.5
CanvasAspects == {20, 10}

\* FrameSpec ticks every 0.05 s
FrameDeltaTimes == {1}

\* canvas.clientWidth and canvas.clientHeight in CSS pixels
ClientSizes == {<<4, 4>>, <<2, 4>>}

\* window.devicePixelRatio in halves: 1.5
DevicePixelRatios == {3}

\* what startup finds: WebGPU with an adapter and a device, no navigator.gpu,
\* requestAdapter() resolving to null, requestDevice() rejecting
GpuStates == {"ok", "none", "noAdapter", "noDevice"}

VARIABLES
    loadedTextures,     \* Map<string, LoadedTexture>: url -> LoadedTexture or NoTexture
    loadingPromises,    \* Map<string, Promise>: url -> id of the pending promise, 0 = no entry
    nextTextureIndex,   \* next free texture index
    textureArray,       \* GPU texture array: layer -> url of the image copied into it, 0 = empty
    loads,              \* every _loadTextureInternal invocation (= its promise), in start order
    calls,              \* every loadTexture call, in call order
    particleCount,      \* WebGPURenderer.particleCount
    dynamicBuffers,     \* the two ping-pong buffers: particle index -> dynamic record
    staticBuffer,       \* particle index -> static record
    buttonText,         \* the count shown in button.textContent
    invocations,        \* every addParticle invocation: its loop state
    frame,              \* WebGPURenderer.frame
    lastSubmit,         \* the command buffer of the last renderLoop tick and what it did
    latest,             \* history: the latest dynamic state of every particle spawned
    probe,              \* ShaderSpec: the particle the shader is applied to
    scheduled,          \* a requestAnimationFrame callback of renderLoop is pending
    canvas,             \* the canvas: client size, pixel size, surface configurations
    page,               \* bootstrap: its progress, the listeners, button and fallback
    hold,               \* setupButtonEvents: its closure variables and the armed timers
    voice               \* the VoiceLoader: its fields, and what its fetches will do

loaderVars == <<loadedTextures, loadingPromises, nextTextureIndex, textureArray, loads, calls>>

pageVars == <<scheduled, canvas, page, hold, voice>>

spawnVars == <<particleCount, dynamicBuffers, staticBuffer, buttonText, invocations,
               frame, lastSubmit, latest, probe, scheduled, canvas, page, hold, voice>>

vars == <<loadedTextures, loadingPromises, nextTextureIndex, textureArray, loads, calls,
          particleCount, dynamicBuffers, staticBuffer, buttonText, invocations,
          frame, lastSubmit, latest, probe, scheduled, canvas, page, hold, voice>>

\* ------------------------------------------------------- values and helpers
NoTexture == [textureIndex |-> -1, bitmap |-> 0]

\* interface LoadedTexture { textureIndex; bitmap }; the bitmap is named by its url
LoadedTexture(index, url) == [textureIndex |-> index, bitmap |-> url]

\* outcome of a loadTexture call, as its caller sees it
Pending == [kind |-> "pending", texture |-> NoTexture]
CapacityError == [kind |-> "capacity", texture |-> NoTexture]
LoadError == [kind |-> "failed", texture |-> NoTexture]
Ok(tex) == [kind |-> "ok", texture |-> tex]

Max(a, b) == IF a >= b THEN a ELSE b

LoadIds == 1..Len(loads)
CallIds == 1..Len(calls)

\* loads of a url by state (the ground truth the ghost fields are taken from)
LoadsOf(url) == {l \in LoadIds : loads[l].url = url}
PendingLoads == {l \in LoadIds : loads[l].status = "pending"}
FulfilledLoads == {l \in LoadIds : loads[l].status = "fulfilled"}
RejectedLoads == {l \in LoadIds : loads[l].status = "rejected"}

\* The loader uses a url only as a Map key and as the argument of fetch, so
\* behaviours that differ by a renaming of urls are the same behaviour: a
\* caller choosing among the urls S names a url already asked for, or the
\* first of S not asked for yet.
UsedUrls == {calls[c].url : c \in CallIds}
UrlChoices(S) == {u \in S : u \in UsedUrls \/ \A v \in S \ UsedUrls : u <= v}

\* number of fetches started / images uploaded for a url
FetchCount(url) == Cardinality(LoadsOf(url))
UploadCount(url) == Cardinality(LoadsOf(url) \cap FulfilledLoads)

\* ------------------------------------------------------------ TextureLoader
\* constructor
LoaderInit ==
    /\ loadedTextures = [u \in Urls |-> NoTexture]
    /\ loadingPromises = [u \in Urls |-> 0]
    /\ nextTextureIndex = 0
    /\ textureArray = [i \in 0..(maxTextures - 1) |-> 0]
    /\ loads = <<>>
    /\ calls = <<>>

IsLoadedNever(url) == FALSE

\* this.loadedTextures.has(url)
IsLoaded(url) == loadedTextures[url] # NoTexture

IsLoadingNever(url) == FALSE

\* this.loadingPromises.has(url)
IsLoading(url) == loadingPromises[url] # 0

\* the capacity check of loadTexture
ArrayFull == nextTextureIndex >= maxTextures

\* const textureIndex = this.nextTextureIndex, the first statement of
\* _loadTextureInternal, executed synchronously inside loadTexture
ReservedIndex == nextTextureIndex

\* the record of a call; the last four fields are history taken at call
\* time from the loads: completed loads of the url, whether the url had
\* neither a pending nor a fulfilled load, how many urls had one, and how
\* many loads had succeeded
CallRecord(url, promise, result) ==
    [url |-> url, promise |-> promise, result |-> result,
     gen |-> Cardinality(LoadsOf(url) \ PendingLoads),
     fresh |-> LoadsOf(url) \cap (PendingLoads \cup FulfilledLoads) = {},
     occupied |-> Cardinality({loads[l].url : l \in PendingLoads \cup FulfilledLoads}),
     resolved |-> Cardinality(FulfilledLoads)]

\* the record of a _loadTextureInternal invocation, i.e. of its promise;
\* by is the call that started it, seen the loads settled before it
\* started, cleared whether clear() has been called while it was in flight
LoadRecord(url, index, by) ==
    [url |-> url, textureIndex |-> index, status |-> "pending", by |-> by,
     seen |-> LoadIds \ PendingLoads, cleared |-> FALSE]

\* loadTexture(url) up to its first await (or its return / throw)
LoadTextureCall(url) ==
    LET c == Len(calls) + 1
        l == Len(loads) + 1
    IN  IF IsLoaded(url) THEN
            /\ calls' = Append(calls, CallRecord(url, 0, Ok(loadedTextures[url])))
            /\ UNCHANGED <<loadedTextures, loadingPromises, nextTextureIndex, textureArray, loads>>
        ELSE IF IsLoading(url) THEN
            /\ calls' = Append(calls, CallRecord(url, loadingPromises[url], Pending))
            /\ UNCHANGED <<loadedTextures, loadingPromises, nextTextureIndex, textureArray, loads>>
        ELSE IF ArrayFull THEN
            /\ calls' = Append(calls, CallRecord(url, 0, CapacityError))
            /\ UNCHANGED <<loadedTextures, loadingPromises, nextTextureIndex, textureArray, loads>>
        ELSE
            /\ loads' = Append(loads, LoadRecord(url, ReservedIndex, c))
            /\ loadingPromises' = [loadingPromises EXCEPT ![url] = l]
            /\ calls' = Append(calls, CallRecord(url, l, Pending))
            /\ UNCHANGED <<loadedTextures, nextTextureIndex, textureArray>>

WaitersOriginOnly(l) == {loads[l].by}

\* the calls whose outcome is the outcome of promise l: the call that awaits
\* it and the calls that returned it from loadingPromises
Waiters(l) == {c \in CallIds : calls[c].promise = l}

\* the settled promise reaches every call that awaits or returned it
Deliver(l, result) ==
    [c \in CallIds |-> IF c \in Waiters(l) THEN [calls[c] EXCEPT !.result = result]
                       ELSE calls[c]]

\* this.loadingPromises.delete(url) in the try branch of loadTexture
LoadingAfterSuccess(url) == [loadingPromises EXCEPT ![url] = 0]

LoadingKeptAfterFailure(url) == loadingPromises

\* this.loadingPromises.delete(url) in the catch branch of loadTexture
LoadingAfterFailure(url) == [loadingPromises EXCEPT ![url] = 0]

IndexKeptAfterSuccess == nextTextureIndex

\* this.nextTextureIndex++
IndexAfterSuccess == nextTextureIndex + 1

\* fetch, blob and createImageBitmap succeeded: the rest of
\* _loadTextureInternal, then the continuation of the loadTexture call
LoadSucceeds(l) ==
    LET url == loads[l].url
        tex == LoadedTexture(loads[l].textureIndex, url)
    IN  /\ l \in PendingLoads
        /\ textureArray' = [textureArray EXCEPT ![loads[l].textureIndex] = url]
        /\ loadedTextures' = [loadedTextures EXCEPT ![url] = tex]
        /\ nextTextureIndex' = IndexAfterSuccess
        /\ loads' = [loads EXCEPT ![l].status = "fulfilled"]
        /\ loadingPromises' = LoadingAfterSuccess(url)
        /\ calls' = Deliver(l, Ok(tex))

\* fetch, blob or createImageBitmap threw: the catch of
\* _loadTextureInternal rethrows, then the catch of the loadTexture call
LoadFails(l) ==
    LET url == loads[l].url
    IN  /\ l \in PendingLoads
        /\ loads' = [loads EXCEPT ![l].status = "rejected"]
        /\ loadingPromises' = LoadingAfterFailure(url)
        /\ calls' = Deliver(l, LoadError)
        /\ UNCHANGED <<loadedTextures, nextTextureIndex, textureArray>>

\* clear(): both maps emptied, the counter back at 0; the loads in flight
\* and the texture array are not touched
ClearCall ==
    /\ loadedTextures' = [url \in Urls |-> NoTexture]
    /\ loadingPromises' = [url \in Urls |-> 0]
    /\ nextTextureIndex' = 0
    /\ loads' = [l \in LoadIds |->
                    IF l \in PendingLoads THEN [loads[l] EXCEPT !.cleared = TRUE]
                    ELSE loads[l]]
    /\ UNCHANGED <<textureArray, calls>>

\* --------------------------------------------------------------- VoiceLoader
\* the audio indices: [0, totalCount)
AudioIndices == 0..(VOICE_TOTAL_COUNT - 1)

Min(a, b) == IF a <= b THEN a ELSE b

\* the fields of a VoiceLoader: loadedAudios (the keys of the Map in
\* insertion order), pendingQueue, loading; and, not fields of the class:
\* failing, the indices whose fetch or decoding fails every time; failures,
\* the failed loads of other indices so far; returned, the indices
\* consumeAudio has returned since it last refilled the queue; refilled,
\* whether it has ever refilled it; last, what consumeAudio did if the last
\* step was a call of it
NoVoice ==
    [loadedAudios |-> <<>>, pendingQueue |-> <<>>, loading |-> {},
     failing |-> {}, failures |-> 0, returned |-> <<>>, refilled |-> FALSE,
     last |-> "none"]

\* getRandomIndices(totalCount, initialLoadCount): the sets of
\* min(initialLoadCount, totalCount) distinct indices
InitialChoices ==
    {S \in SUBSET AudioIndices :
        Cardinality(S) = Min(VOICE_INITIAL_LOAD, VOICE_TOTAL_COUNT)}

\* the constructor: loadInitialAudios runs every loadAudio(index) up to its
\* fetch, which puts the index in loading
NewVoiceLoader(initial, failing) ==
    [NoVoice EXCEPT !.loading = initial, !.failing = failing]

\* this.loadedAudios.has(i)
HasAudio(v, i) == \E k \in DOMAIN v.loadedAudios : v.loadedAudios[k] = i

\* loadAudio(index) after its awaits succeeded: loadedAudios.set,
\* pendingQueue.push, then loading.delete in the finally block
AudioLoaded(v, i) ==
    [v EXCEPT !.loadedAudios = Append(v.loadedAudios, i),
              !.pendingQueue = Append(v.pendingQueue, i),
              !.loading = v.loading \ {i},
              !.last = "none"]

\* loadAudio(index) after an await threw: console.error, then
\* loading.delete in the finally block
AudioFailed(v, i) ==
    [v EXCEPT !.loading = v.loading \ {i},
              !.failures = IF i \in v.failing THEN v.failures ELSE v.failures + 1,
              !.last = "none"]

\* the indices tryLoadNextAudio may load
Unloaded(v) == {i \in AudioIndices : ~HasAudio(v, i) /\ i \notin v.loading}

\* the index the for loop of tryLoadNextAudio finds: the lowest one
NextUnloaded(v) == {i \in Unloaded(v) : \A j \in Unloaded(v) : i <= j}

\* tryLoadNextAudio() up to the fetch of loadAudio
TryLoadNextAudio(v) ==
    IF Len(v.loadedAudios) >= VOICE_TOTAL_COUNT \/ Unloaded(v) = {}
    THEN {v}
    ELSE {[v EXCEPT !.loading = v.loading \cup {i}] : i \in NextUnloaded(v)}

\* refillQueue(): Array.from(this.loadedAudios.keys()), or nothing when no
\* audio is loaded
RefillQueue(v) == IF Len(v.loadedAudios) = 0 THEN v.pendingQueue ELSE v.loadedAudios

SpliceNothing(q, k) == q

\* q.splice(k, 1), k counted from 1
Splice(q, k) == [j \in 1..(Len(q) - 1) |-> IF j < k THEN q[j] ELSE q[j + 1]]

\* consumeAudio(): the VoiceLoaders it may leave behind
ConsumeAudio(v) ==
    LET refill == Len(v.pendingQueue) = 0
        q == IF refill THEN RefillQueue(v) ELSE v.pendingQueue
    IN  IF Len(q) = 0 THEN {[v EXCEPT !.last = "null"]}
        ELSE UNION {TryLoadNextAudio(
                        [v EXCEPT !.pendingQueue = Splice(q, k),
                                  !.returned = Append(IF refill THEN <<>> ELSE v.returned, q[k]),
                                  !.refilled = v.refilled \/ refill,
                                  !.last = "audio"]) : k \in 1..Len(q)}

\* ------------------------------------------------------------ WebGPURenderer
NoRecord == [empty |-> TRUE]

NoSubmit == [frame |-> -1]

NoProbe == [steps |-> -1]

ConfigureCanvasUnscaled(client, ratio) ==
    [client |-> client, ratio |-> ratio, pixels |-> client, configured |-> TRUE]

\* the canvas as configureCanvas leaves it: pixel size floor(client size *
\* devicePixelRatio), the context configured
ConfigureCanvas(client, ratio) ==
    [client |-> client, ratio |-> ratio,
     pixels |-> <<(client[1] * ratio) \div 2, (client[2] * ratio) \div 2>>,
     configured |-> TRUE]

\* the canvas of the page before init
Unconfigured ==
    [client |-> <<4, 4>>, ratio |-> 2, pixels |-> <<0, 0>>, configured |-> FALSE]

\* the page while bootstrap has not finished
Loading ==
    [phase |-> "loading", gpu |-> "unknown", init |-> "pending", listeners |-> FALSE,
     resizeListener |-> FALSE, buttonShown |-> TRUE, fallback |-> "hidden"]

\* the page after bootstrap with init() = true: resize listener (init),
\* button listeners (setupButtonEvents)
Running ==
    [phase |-> "running", gpu |-> "ok", init |-> "true", listeners |-> TRUE,
     resizeListener |-> TRUE, buttonShown |-> TRUE, fallback |-> "hidden"]

\* the page after the else branch of bootstrap
NotSupported(gpu) ==
    [phase |-> "fallback", gpu |-> gpu, init |-> "false", listeners |-> FALSE,
     resizeListener |-> FALSE, buttonShown |-> FALSE, fallback |-> "unsupported"]

\* the page after bootstrap().catch
ErrorOccurred(gpu) ==
    [phase |-> "fallback", gpu |-> gpu, init |-> "threw", listeners |-> FALSE,
     resizeListener |-> FALSE, buttonShown |-> FALSE, fallback |-> "error"]

\* the closure variables of setupButtonEvents (0 is null), the timers that
\* are armed, VoicePlayer.continuousInterval, and (history) whether the last
\* press or release event was a release and whether a hold timeout has run
\* out since the last press
NoHold ==
    [holdTimer |-> 0, spawnInterval |-> 0, isHolding |-> FALSE,
     timeouts |-> {}, intervals |-> {}, nextTimer |-> 1,
     continuousInterval |-> FALSE, released |-> TRUE, wasHold |-> FALSE]

\* createAssets: buffers of MAX_PARTICLES records; field initialisers
RendererFields ==
    /\ particleCount = 0
    /\ dynamicBuffers = [b \in 0..1 |-> [i \in 0..(MAX_PARTICLES - 1) |-> NoRecord]]
    /\ staticBuffer = [i \in 0..(MAX_PARTICLES - 1) |-> NoRecord]
    /\ buttonText = 0
    /\ invocations = <<>>
    /\ frame = 0
    /\ lastSubmit = NoSubmit
    /\ latest = <<>>

\* the page after bootstrap on a browser with WebGPU: init() configured the
\* canvas, start() requested the first frame
Booted ==
    /\ scheduled = TRUE
    /\ canvas = ConfigureCanvas(<<4, 4>>, 2)
    /\ page = Running
    /\ hold = NoHold
    /\ voice = NoVoice

RendererInit == RendererFields /\ Booted

InvocationIds == 1..Len(invocations)

\* an addParticle invocation whose awaited loadTexture call has settled is
\* on the microtask queue; tasks start only when that queue is empty
Resumable(i) ==
    /\ invocations[i].pc = "await"
    /\ calls[invocations[i].call].result # Pending

Quiescent == (\A i \in InvocationIds : ~Resumable(i)) /\ PendingLoads = {}

MicrotasksEmpty == \A i \in InvocationIds : ~Resumable(i)

\* device.queue.writeBuffer(buffer, index * STRIDE, data): a write past the
\* end of the buffer is a validation error on the device timeline, it
\* changes nothing and throws nothing
WriteBuffer(buffer, index, data) ==
    IF index < MAX_PARTICLES THEN [buffer EXCEPT ![index] = data] ELSE buffer

\* dynamicData: pos, vel, rotation
DynamicData(vel) == [pos |-> <<0, 0>>, vel |-> vel, rotation |-> 0]

\* the image of url k is k * 256 pixels wide and 256 pixels high
BitmapWidth(bitmap) == bitmap * 256
BitmapHeight(bitmap) == 256

\* staticData: scale (0.3), aspectRatio, angularVel, texIndex and uvScale (in
\* units of 1 / TEXTURE_SIZE); bitmap names the image the ratios come from
StaticData(tex, angularVel) ==
    [scale |-> 3, bitmap |-> tex.bitmap, textureIndex |-> tex.textureIndex,
     aspectRatio |-> BitmapWidth(tex.bitmap) \div BitmapHeight(tex.bitmap),
     angularVel |-> angularVel,
     uvScale |-> <<BitmapWidth(tex.bitmap), BitmapHeight(tex.bitmap)>>]

\* if (this.particleCount >= MAX_PARTICLES) return
AtCapacity == particleCount >= MAX_PARTICLES

\* an addParticle invocation: where it is, the passes left, the call it
\* awaits, two counts: the attempts whose loadTexture failed (history) and
\* the console.error calls of its catch block, and the value cnt began with
\* (history)
Invocation(pc, cnt, call, failed, logged, size) ==
    [pc |-> pc, cnt |-> cnt, call |-> call, failed |-> failed, logged |-> logged,
     size |-> size]

\* the value cnt was given when invocation i began, cnt for one that begins
SizeOf(i, cnt) == IF i \in DOMAIN invocations THEN invocations[i].size ELSE cnt

\* one pass of while (cnt-- > 0) up to the await: pick a url, call loadTexture
LoopHead(i, cnt, failed, logged) ==
    IF cnt > 0 THEN
        \E url \in UrlChoices(IMAGE_URLS) :
            /\ LoadTextureCall(url)
            /\ invocations' = [j \in 1..Max(i, Len(invocations)) |->
                    IF j = i THEN Invocation("await", cnt - 1, Len(calls) + 1, failed, logged,
                                             SizeOf(i, cnt))
                    ELSE invocations[j]]
    ELSE
        /\ invocations' = [j \in 1..Max(i, Len(invocations)) |->
                IF j = i THEN Invocation("done", cnt - 1, 0, failed, logged, SizeOf(i, cnt))
                ELSE invocations[j]]
        /\ UNCHANGED loaderVars

\* addParticle() up to its first await; sizes are the values cnt may take
AddParticleCall(sizes) ==
    LET i == Len(invocations) + 1
    IN  /\ UNCHANGED <<particleCount, dynamicBuffers, staticBuffer, buttonText,
                       frame, lastSubmit, latest, probe>>
        /\ IF AtCapacity THEN
               /\ invocations' = Append(invocations, Invocation("done", 0, 0, 0, 0, 0))
               /\ UNCHANGED loaderVars
           ELSE \E cnt \in sizes : LoopHead(i, cnt, 0, 0)

SpawnIndexPrevious == Max(particleCount - 1, 0)

\* the offset of the three writeBuffer calls: this.particleCount * STRIDE
SpawnIndex == particleCount

AnyButCapacity(result) == result.kind # "capacity"

\* await loadTexture(url) returned a texture: the try block goes on
Resolves(result) == result.kind = "ok"

LoggedNothing(logged) == logged

\* console.error('Failed to add particle:', error) in the catch block
LoggedAfterCatch(logged) == logged + 1

\* addParticle resumed after await loadTexture: the rest of the try block
\* or the catch block, then the next pass of the loop
AddParticleResume(i) ==
    LET result == calls[invocations[i].call].result
        inv == invocations[i]
    IN  /\ Resumable(i)
        /\ UNCHANGED <<frame, lastSubmit, probe>>
        /\ UNCHANGED pageVars
        /\ IF Resolves(result) THEN
               /\ \E vel \in Velocities, angularVel \in AngularVelocities :
                     /\ dynamicBuffers' = [b \in 0..1 |->
                            WriteBuffer(dynamicBuffers[b], SpawnIndex, DynamicData(vel))]
                     /\ staticBuffer' = WriteBuffer(staticBuffer, SpawnIndex,
                                                    StaticData(result.texture, angularVel))
                     /\ latest' = Append(latest, DynamicData(vel))
               /\ particleCount' = particleCount + 1
               /\ buttonText' = particleCount + 1
               /\ LoopHead(i, inv.cnt, inv.failed, inv.logged)
           ELSE
               /\ UNCHANGED <<particleCount, dynamicBuffers, staticBuffer, buttonText, latest>>
               /\ LoopHead(i, inv.cnt, inv.failed + 1, LoggedAfterCatch(inv.logged))

\* ----------------------------------------------------------- compute shader
AbsDamped(x) == IF x < 0 THEN -x - 1 ELSE x

\* abs()
Abs(x) == IF x < 0 THEN -x ELSE x

\* half_height = s.scale * 0.5: tenths halved are twentieths
HalfHeight(s) == s.scale

\* half_width = half_height * s.aspectRatio
HalfWidth(s) == HalfHeight(s) * s.aspectRatio

\* bound_y = 1.0
BoundY == 20

PosUnclamped(p, half, bound) == p

\* the position on one axis after the boundary test
ClampedPos(p, half, bound) ==
    IF p - half < -bound THEN -bound + half
    ELSE IF p + half > bound THEN bound - half
    ELSE p

VelNegated(p, v, half, bound) ==
    IF p - half < -bound \/ p + half > bound THEN -v ELSE v

\* the velocity on one axis after the boundary test
ReflectedVel(p, v, half, bound) ==
    IF p - half < -bound THEN Abs(v)
    ELSE IF p + half > bound THEN -Abs(v)
    ELSE v

\* the position on one axis before the boundary test
Integrated(p, v, deltaTime) == p + v * deltaTime

\* main for one index below uniforms.particleCount: the record written to
\* dynamic_data_out from the record d of dynamic_data_in, the static record
\* s and the uniforms u
ComputeMain(d, s, u) ==
    LET x == Integrated(d.pos[1], d.vel[1], u.deltaTime)
        y == Integrated(d.pos[2], d.vel[2], u.deltaTime)
    IN  [pos |-> <<ClampedPos(x, HalfWidth(s), u.aspectRatio),
                   ClampedPos(y, HalfHeight(s), BoundY)>>,
         vel |-> <<ReflectedVel(x, d.vel[1], HalfWidth(s), u.aspectRatio),
                   ReflectedVel(y, d.vel[2], HalfHeight(s), BoundY)>>,
         rotation |-> d.rotation + s.angularVel * u.deltaTime]

\* ------------------------------------------------------------- the frame loop
ComputeBindGroupSame(g) == [in |-> g, out |-> g]

\* computeBindGroups[g]: binding 0 (dynamic_data_in) and binding 1
\* (dynamic_data_out) as indices of dynamicBuffers
ComputeBindGroup(g) == [in |-> g, out |-> 1 - g]

RenderVertexBufferInput == frame % 2

\* renderPass.setVertexBuffer(0, this.dynamicBuffers[(this.frame + 1) % 2])
RenderVertexBuffer == (frame + 1) % 2

\* canvas.clientWidth / canvas.clientHeight, in twentieths
CanvasAspect == (20 * canvas.client[1]) \div canvas.client[2]

\* uniformsData: deltaTime, particleCount, aspectRatio
Uniforms(deltaTime, aspectRatio) ==
    [deltaTime |-> deltaTime, particleCount |-> particleCount, aspectRatio |-> aspectRatio]

\* the passes the tick encodes, in order
Passes ==
    IF particleCount > 0 THEN
        <<[kind |-> "compute", in |-> ComputeBindGroup(frame % 2).in,
           out |-> ComputeBindGroup(frame % 2).out],
          [kind |-> "render", source |-> RenderVertexBuffer, instances |-> particleCount]>>
    ELSE <<[kind |-> "render", source |-> -1, instances |-> 0]>>

\* draw(6, particleCount) is valid while the instances fit the vertex
\* buffers; otherwise the encoder is invalid and the submission does nothing
DrawValid == particleCount <= MAX_PARTICLES

\* the compute pass executed: every invocation below particleCount writes
\* its record of the out buffer
Dispatch(group, u) ==
    [dynamicBuffers EXCEPT ![group.out] =
        [i \in DOMAIN dynamicBuffers[group.out] |->
            IF i < u.particleCount
            THEN ComputeMain(dynamicBuffers[group.in][i], staticBuffer[i], u)
            ELSE dynamicBuffers[group.out][i]]]

\* the instances the render pass reads from its vertex buffer 0
Drawn(buffers, source, count) == [i \in 1..count |-> buffers[source][i - 1]]

RescheduledWhileParticles == particleCount > 0

\* requestAnimationFrame(this.renderLoop), the last statement of renderLoop
RescheduledAfterTick == TRUE

\* one tick of renderLoop
RenderLoopTick(deltaTime, aspectRatio) ==
    LET u == Uniforms(deltaTime, aspectRatio)
        executes == particleCount > 0 /\ DrawValid
    IN  /\ dynamicBuffers' = IF executes THEN Dispatch(ComputeBindGroup(frame % 2), u)
                              ELSE dynamicBuffers
        /\ latest' = IF executes
                     THEN [i \in 1..particleCount |->
                              dynamicBuffers'[ComputeBindGroup(frame % 2).out][i - 1]]
                     ELSE latest
        /\ lastSubmit' = [frame |-> frame, uniforms |-> u, passes |-> Passes,
                          valid |-> DrawValid,
                          drawn |-> IF executes
                                    THEN Drawn(dynamicBuffers', RenderVertexBuffer, particleCount)
                                    ELSE <<>>]
        /\ frame' = frame + 1
        /\ scheduled' = RescheduledAfterTick
        /\ UNCHANGED <<particleCount, staticBuffer, buttonText, invocations, probe,
                       canvas, page, hold, voice>>
        /\ UNCHANGED loaderVars

\* ------------------------------------------------------ specification Spec
Init == LoaderInit /\ RendererInit /\ probe = NoProbe

LoadTexture ==
    /\ \E url \in UrlChoices(Urls) : Len(calls) < MaxCalls /\ LoadTextureCall(url)
    /\ UNCHANGED spawnVars

LoadSuccess ==
    /\ MicrotasksEmpty
    /\ \E l \in LoadIds : LoadSucceeds(l)
    /\ UNCHANGED spawnVars

LoadFailure ==
    /\ MicrotasksEmpty
    /\ Cardinality(RejectedLoads) < MaxFailures
    /\ \E l \in LoadIds : LoadFails(l)
    /\ UNCHANGED spawnVars

Next == LoadTexture \/ LoadSuccess \/ LoadFailure

Spec == Init /\ [][Next]_vars

\* ------------------------------------------------- specification ClearSpec
\* the TextureLoader with callers of loadTexture and of clear()
Clear ==
    /\ MicrotasksEmpty
    /\ ClearCall
    /\ UNCHANGED spawnVars

ClearNext == LoadTexture \/ LoadSuccess \/ LoadFailure \/ Clear

ClearSpec == Init /\ [][ClearNext]_vars

\* ------------------------------------------------- specification VoiceSpec
\* the VoiceLoader from its construction: consumeAudio called at any time
\* (by shotVoice, from the click and touchend handlers and from the
\* interval of startContinuousShot), and its loads ending
VoiceInit ==
    /\ LoaderInit
    /\ RendererFields
    /\ probe = NoProbe
    /\ scheduled = TRUE
    /\ canvas = ConfigureCanvas(<<4, 4>>, 2)
    /\ page = Running
    /\ hold = NoHold
    /\ \E initial \in InitialChoices, failing \in SUBSET AudioIndices :
          voice = NewVoiceLoader(initial, failing)

VoiceUnchanged ==
    /\ UNCHANGED <<particleCount, dynamicBuffers, staticBuffer, buttonText, invocations,
                   frame, lastSubmit, latest, probe, scheduled, canvas, page, hold>>
    /\ UNCHANGED loaderVars

Consume ==
    /\ voice' \in ConsumeAudio(voice)
    /\ VoiceUnchanged

\* the fetch and the decoding of audio i succeed
AudioLoadSucceeds(i) ==
    /\ i \in voice.loading
    /\ i \notin voice.failing
    /\ voice' = AudioLoaded(voice, i)

\* the fetch or the decoding of audio i fails
AudioLoadFails(i) ==
    /\ i \in voice.loading
    /\ i \in voice.failing \/ voice.failures < MaxVoiceFailures
    /\ voice' = AudioFailed(voice, i)

AudioLoadSuccess ==
    /\ \E i \in AudioIndices : AudioLoadSucceeds(i)
    /\ VoiceUnchanged

AudioLoadFailure ==
    /\ \E i \in AudioIndices : AudioLoadFails(i)
    /\ VoiceUnchanged

VoiceNext == Consume \/ AudioLoadSuccess \/ AudioLoadFailure

VoiceSpec == VoiceInit /\ [][VoiceNext]_vars

\* consumeAudio keeps being called, and every load ends
AudioSettles(i) ==
    /\ AudioLoadSucceeds(i) \/ AudioLoadFails(i)
    /\ VoiceUnchanged

VoiceLiveSpec ==
    /\ VoiceSpec
    /\ WF_vars(Consume)
    /\ \A i \in AudioIndices : WF_vars(AudioSettles(i))

\* -------------------------------------------------- specification LiveSpec
\* the fetch and the decoding of load l come to an end, one way or the other
Settles(l) ==
    /\ MicrotasksEmpty
    /\ \/ LoadSucceeds(l)
       \/ Cardinality(RejectedLoads) < MaxFailures /\ LoadFails(l)
    /\ UNCHANGED spawnVars

\* Spec, with every fetch and decoding coming to an end
LiveSpec == Spec /\ \A l \in 1..MaxCalls : WF_vars(Settles(l))

\* ------------------------------------------------- specification SpawnSpec
AddParticle ==
    /\ MicrotasksEmpty
    /\ Len(invocations) < MaxInvocations
    /\ AddParticleCall(BatchSizes)
    /\ UNCHANGED pageVars

ResumeAddParticle == \E i \in InvocationIds : AddParticleResume(i)

SpawnNext == AddParticle \/ ResumeAddParticle \/ LoadSuccess \/ LoadFailure

SpawnSpec == Init /\ [][SpawnNext]_vars

\* ------------------------------------------------- specification FrameSpec
RECURSIVE Remaining(_)
\* the passes the first n invocations have still to make
Remaining(n) ==
    IF n = 0 THEN 0
    ELSE Remaining(n - 1) + (IF invocations[n].pc = "await" THEN invocations[n].cnt ELSE 0)

\* the batch sizes that keep the attempts of the behaviour within MaxAttempts
AffordableSizes ==
    {n \in BatchSizes : Len(calls) + Remaining(Len(invocations)) + n <= MaxAttempts}

FrameAddParticle ==
    /\ MicrotasksEmpty
    /\ AffordableSizes # {}
    /\ AddParticleCall(AffordableSizes)
    /\ UNCHANGED pageVars

\* requestAnimationFrame callbacks are tasks
RenderLoop ==
    /\ MicrotasksEmpty
    /\ scheduled
    /\ frame < MaxFrames
    /\ \E deltaTime \in FrameDeltaTimes : RenderLoopTick(deltaTime, CanvasAspect)

FrameNext ==
    FrameAddParticle \/ ResumeAddParticle \/ LoadSuccess \/ LoadFailure \/ RenderLoop

FrameSpec == Init /\ [][FrameNext]_vars

\* ----------------------------------------------- specification OverlapSpec
\* addParticle invocations that overlap while they await their loads, as
\* the spawn interval and the click handler start them; no frame ticks
OverlapSizes ==
    {n \in BatchSizes : Len(calls) + Remaining(Len(invocations)) + n <= MaxOverlapAttempts}

OverlapAddParticle ==
    /\ MicrotasksEmpty
    /\ OverlapSizes # {}
    /\ AddParticleCall(OverlapSizes)
    /\ UNCHANGED pageVars

OverlapNext == OverlapAddParticle \/ ResumeAddParticle \/ LoadSuccess \/ LoadFailure

OverlapSpec == Init /\ [][OverlapNext]_vars

\* -------------------------------------------------- specification PageSpec
\* no addParticle invocation is in progress
NoneInProgress == \A i \in InvocationIds : invocations[i].pc = "done"

\* PageSpec and ButtonSpec start an addParticle invocation when none is in
\* progress, with a batch size that keeps the attempts of the behaviour
\* within budget
HandlerSizes(budget) ==
    IF NoneInProgress
    THEN {n \in BatchSizes : Len(calls) + n <= budget}
    ELSE {}

\* renderer.addParticle() called from an event handler or a timer
HandlerAddParticle(budget) ==
    /\ HandlerSizes(budget) # {}
    /\ AddParticleCall(HandlerSizes(budget))

PageInit ==
    /\ LoaderInit
    /\ RendererFields
    /\ probe = NoProbe
    /\ scheduled = FALSE
    /\ canvas = Unconfigured
    /\ page = Loading
    /\ hold = NoHold
    /\ voice = NoVoice

\* bootstrap() and its catch handler, on a browser in state gpu.  init()
\* returns false without navigator.gpu; a null adapter makes
\* this.adapter.requestDevice() throw and a rejected requestDevice() makes
\* init() reject, both before anything is configured or registered
Bootstrap ==
    /\ page.phase = "loading"
    /\ \E gpu \in GpuStates :
          IF gpu = "ok" THEN
              /\ \E ratio \in DevicePixelRatios :
                     canvas' = ConfigureCanvas(canvas.client, ratio)
              /\ scheduled' = TRUE
              /\ page' = Running
          ELSE
              /\ page' = IF gpu = "none" THEN NotSupported(gpu) ELSE ErrorOccurred(gpu)
              /\ UNCHANGED <<scheduled, canvas>>
    /\ UNCHANGED <<particleCount, dynamicBuffers, staticBuffer, buttonText, invocations,
                   frame, lastSubmit, latest, probe, hold, voice>>
    /\ UNCHANGED loaderVars

\* the resize listener of init: the window has a new size, configureCanvas
Resize ==
    /\ MicrotasksEmpty
    /\ page.resizeListener
    /\ \E client \in ClientSizes, ratio \in DevicePixelRatios :
           canvas' = ConfigureCanvas(client, ratio)
    /\ UNCHANGED <<particleCount, dynamicBuffers, staticBuffer, buttonText, invocations,
                   frame, lastSubmit, latest, probe, scheduled, page, hold, voice>>
    /\ UNCHANGED loaderVars

\* handleClick: addParticle and shotVoice unless a hold is under way
HandleClick(budget) ==
    /\ MicrotasksEmpty
    /\ IF hold.isHolding THEN UNCHANGED vars
       ELSE /\ HandlerAddParticle(budget)
            /\ UNCHANGED pageVars

PageClick ==
    /\ page.listeners
    /\ HandleClick(MaxPageAttempts)

PageNext ==
    \/ Bootstrap
    \/ Resize
    \/ PageClick
    \/ ResumeAddParticle
    \/ LoadSuccess
    \/ LoadFailure
    \/ RenderLoop

PageSpec == PageInit /\ [][PageNext]_vars

\* ------------------------------------------------ specification ButtonSpec
\* startHold: the new timeout's id replaces holdTimer
StartHold(h) ==
    [h EXCEPT !.holdTimer = h.nextTimer,
              !.timeouts = h.timeouts \cup {h.nextTimer},
              !.nextTimer = h.nextTimer + 1,
              !.released = FALSE,
              !.wasHold = FALSE]

\* endHold: clearTimeout(holdTimer), clearInterval(spawnInterval),
\* voicePlayer.stopContinuousShot(), isHolding = false
EndHold(h) ==
    [h EXCEPT !.timeouts = h.timeouts \ {h.holdTimer},
              !.holdTimer = 0,
              !.intervals = h.intervals \ {h.spawnInterval},
              !.spawnInterval = 0,
              !.continuousInterval = FALSE,
              !.isHolding = FALSE,
              !.released = TRUE]

\* the callback of the timeout t but for its addParticle call: isHolding,
\* voicePlayer.startContinuousShot(), the new interval's id in spawnInterval
HoldDetected(h, t) ==
    [h EXCEPT !.timeouts = h.timeouts \ {t},
              !.isHolding = TRUE,
              !.continuousInterval = TRUE,
              !.spawnInterval = h.nextTimer,
              !.intervals = h.intervals \cup {h.nextTimer},
              !.nextTimer = h.nextTimer + 1,
              !.wasHold = TRUE]

Click ==
    /\ page.listeners
    /\ HandleClick(MaxHandlerAttempts)

\* mousedown or touchstart
Press ==
    /\ MicrotasksEmpty
    /\ page.listeners
    /\ hold.nextTimer <= MaxTimers
    /\ hold' = StartHold(hold)
    /\ UNCHANGED <<particleCount, dynamicBuffers, staticBuffer, buttonText, invocations,
                   frame, lastSubmit, latest, probe, scheduled, canvas, page, voice>>
    /\ UNCHANGED loaderVars

\* mouseup, mouseleave or touchcancel
Release ==
    /\ MicrotasksEmpty
    /\ page.listeners
    /\ hold' = EndHold(hold)
    /\ UNCHANGED <<particleCount, dynamicBuffers, staticBuffer, buttonText, invocations,
                   frame, lastSubmit, latest, probe, scheduled, canvas, page, voice>>
    /\ UNCHANGED loaderVars

\* touchend: endHold, after which isHolding is false, so addParticle and
\* shotVoice
TouchEnd ==
    /\ MicrotasksEmpty
    /\ page.listeners
    /\ hold' = EndHold(hold)
    /\ HandlerAddParticle(MaxHandlerAttempts)
    /\ UNCHANGED <<scheduled, canvas, page, voice>>

\* the hold timeout t runs out
HoldTimerFires ==
    /\ MicrotasksEmpty
    /\ hold.nextTimer <= MaxTimers
    /\ \E t \in hold.timeouts : hold' = HoldDetected(hold, t)
    /\ HandlerAddParticle(MaxHandlerAttempts)
    /\ UNCHANGED <<scheduled, canvas, page, voice>>

\* a spawn interval comes round
SpawnIntervalFires ==
    /\ MicrotasksEmpty
    /\ hold.intervals # {}
    /\ HandlerAddParticle(MaxHandlerAttempts)
    /\ UNCHANGED pageVars

ButtonNext ==
    \/ Press
    \/ Release
    \/ TouchEnd
    \/ Click
    \/ HoldTimerFires
    \/ SpawnIntervalFires
    \/ ResumeAddParticle
    \/ LoadSuccess
    \/ LoadFailure

ButtonSpec == Init /\ [][ButtonNext]_vars

\* ------------------------------------------------ specification ShaderSpec
ProbePositions == {-30, -17, 0, 17, 30}

ProbeVelocities == {-4, 0, 4}

\* scale 0.3 as addParticle writes it, and 1.2
ProbeScales == {3, 12}

\* images as wide as high, and four times as wide
ProbeAspectRatios == {1, 4}

ProbeInputs ==
    [d : [pos : ProbePositions \X ProbePositions, vel : ProbeVelocities \X ProbeVelocities,
          rotation : {0}],
     s : [scale : ProbeScales, aspectRatio : ProbeAspectRatios, angularVel : AngularVelocities],
     u : [deltaTime : DeltaTimes, particleCount : {1}, aspectRatio : CanvasAspects],
     prev : {NoRecord}, steps : {0}]

\* a particle at the origin with velocity (0.9, 0) per second and half
\* width 0.1 (scale 0.2, square image), deltaTime 1.0 s, canvas aspect
\* ratio 0.5
ScenarioInput ==
    [d |-> [pos |-> <<0, 0>>, vel |-> <<18, 0>>, rotation |-> 0],
     s |-> [scale |-> 2, aspectRatio |-> 1, angularVel |-> 1],
     u |-> [deltaTime |-> 1, particleCount |-> 1, aspectRatio |-> 10],
     prev |-> NoRecord, steps |-> 0]

ShaderInit == LoaderInit /\ RendererInit /\ probe \in ProbeInputs \cup {ScenarioInput}

\* one dispatch over the probed particle
ShaderStep ==
    /\ probe.steps < MaxSteps
    /\ probe' = [probe EXCEPT !.d = ComputeMain(probe.d, probe.s, probe.u),
                              !.prev = probe.d,
                              !.steps = probe.steps + 1]
    /\ UNCHANGED <<particleCount, dynamicBuffers, staticBuffer, buttonText, invocations,
                   frame, lastSubmit, latest>>
    /\ UNCHANGED pageVars
    /\ UNCHANGED loaderVars

ShaderNext == ShaderStep

ShaderSpec == ShaderInit /\ [][ShaderNext]_vars

\* ------------------------------------------------------------------ claims
\* calls for url issued before any load of url had completed
FirstWindow(url) == {c \in CallIds : calls[c].url = url /\ calls[c].gen = 0}

\* loads of url started before any load of url had completed
FirstWindowLoads(url) == {l \in LoadsOf(url) : calls[loads[l].by].gen = 0}

\* C1: the loadTexture(url) calls issued before the first load of url
\* completes start exactly one load between them (none only when all of them
\* are turned away by the capacity check), all of them hold that load's
\* promise, and when it is fulfilled all of them have the same LoadedTexture.
C1_OneLoadPerWindow ==
    \A url \in Urls :
        FirstWindow(url) # {} =>
            \/ /\ FirstWindowLoads(url) = {}
               /\ \A c \in FirstWindow(url) : calls[c].result = CapacityError
            \/ \E l \in LoadsOf(url) :
                   /\ FirstWindowLoads(url) = {l}
                   /\ \A c \in FirstWindow(url) :
                          /\ calls[c].promise = l
                          /\ loads[l].status = "fulfilled" =>
                                 calls[c].result = Ok(LoadedTexture(loads[l].textureIndex, url))

C1_Witness ==
    \E url \in Urls : \E l \in LoadsOf(url) :
        /\ loads[l].status = "fulfilled"
        /\ Cardinality({c \in FirstWindow(url) :
                            calls[c].promise = l /\ calls[c].result.kind = "ok"}) >= 3

\* C2: no two distinct resolved URLs have the same textureIndex.
C2_DistinctIndices ==
    \A u, v \in Urls :
        (u # v /\ IsLoaded(u) /\ IsLoaded(v)) =>
            loadedTextures[u].textureIndex # loadedTextures[v].textureIndex

\* C3: particleCount never exceeds MAX_PARTICLES.
C3_ParticleBound == particleCount <= MAX_PARTICLES

\* C4: a call for a URL that has neither a pending nor a fulfilled load,
\* made when the URLs with a pending or fulfilled load already number
\* maxTextures, fails with the capacity error and starts no load.
C4_CapacityCountsInFlight ==
    \A c \in CallIds :
        (calls[c].fresh /\ calls[c].occupied >= maxTextures) =>
            (calls[c].result = CapacityError /\ calls[c].promise = 0)

\* C5: when the first maxTextures + 1 calls ask for distinct URLs, the first
\* maxTextures of them succeeded and the last was made after those loads had
\* succeeded, the first calls hold the indices 0 .. maxTextures - 1 in call
\* order, the last call failed with the capacity error without starting a
\* load, and right after it the counter is maxTextures and the resolved URLs
\* are those of the first calls.
C5_CapacityScenario ==
    LET C == maxTextures
    IN  ( /\ Len(calls) >= C + 1
          /\ \A i, j \in 1..(C + 1) : i # j => calls[i].url # calls[j].url
          /\ \A i \in 1..C : calls[i].result.kind = "ok"
          /\ calls[C + 1].resolved = C )
        => /\ \A i \in 1..C : calls[i].result.texture.textureIndex = i - 1
           /\ calls[C + 1].result = CapacityError
           /\ calls[C + 1].promise = 0
           /\ Len(calls) = C + 1 =>
                  /\ nextTextureIndex = C
                  /\ {u \in Urls : IsLoaded(u)} = {calls[i].url : i \in 1..C}

\* the load of url started last
LastLoad(url) == CHOOSE l \in LoadsOf(url) : \A m \in LoadsOf(url) : m <= l

\* C6: a URL whose last load failed is in neither loadingPromises nor
\* loadedTextures, and a call for it made after the failure (no load of it
\* pending or fulfilled) behaves as a first call does: unless the capacity
\* check turns it away, it starts a load of its own and awaits that one,
\* not the rejected promise.
C6_RetryAfterFailure ==
    /\ \A url \in Urls :
          (LoadsOf(url) # {} /\ loads[LastLoad(url)].status = "rejected") =>
              (~IsLoading(url) /\ ~IsLoaded(url))
    /\ \A c \in CallIds :
          (calls[c].gen >= 1 /\ calls[c].fresh) =>
              IF calls[c].resolved < maxTextures
              THEN /\ calls[c].promise \in LoadIds
                   /\ loads[calls[c].promise].by = c
                   /\ calls[c].result # CapacityError
              ELSE calls[c].result = CapacityError

C6_Witness ==
    \E c \in CallIds :
        /\ calls[c].gen >= 1
        /\ calls[c].fresh
        /\ calls[c].promise \in LoadIds
        /\ calls[c].result.kind = "ok"

\* C7: every call that holds the promise of a load that failed has the
\* failure as its outcome, the call that started the load and the calls
\* that attached to it alike.
C7_FailureReachesAllWaiters ==
    \A l \in RejectedLoads : \A c \in CallIds :
        calls[c].promise = l => calls[c].result = LoadError

C7_Witness ==
    \E l \in RejectedLoads : \E c \in CallIds :
        /\ c # loads[l].by
        /\ calls[c].promise = l
        /\ calls[c].result = LoadError

\* C8: the index given to a load that failed is not given to any load
\* started after the failure.
C8_FailedIndexNotReused ==
    \A m \in LoadIds : \A l \in loads[m].seen :
        loads[l].status = "rejected" => loads[m].textureIndex # loads[l].textureIndex

\* some loadTexture call for url succeeded
SomeCallSucceeded(url) ==
    \E c \in CallIds : calls[c].url = url /\ calls[c].result.kind = "ok"

\* C9 as stated: if a call for a URL succeeded, exactly one load was ever
\* started for that URL.
C9_OneOperationEver ==
    \A url \in Urls : SomeCallSucceeded(url) => FetchCount(url) = 1

\* C9 amended: if a call for a URL succeeded, exactly one load of that URL
\* ran to its upload, and none is pending; the other loads started for it
\* are the attempts that failed before.
C9_OneUploadEver ==
    \A url \in Urls :
        SomeCallSucceeded(url) =>
            /\ UploadCount(url) = 1
            /\ LoadsOf(url) \cap PendingLoads = {}
            /\ FetchCount(url) = 1 + Cardinality(LoadsOf(url) \cap RejectedLoads)

C9_Witness ==
    \E url \in Urls :
        /\ FetchCount(url) >= 2
        /\ UploadCount(url) = 1
        /\ \E c \in CallIds :
              calls[c].url = url /\ calls[c].promise = 0 /\ calls[c].result.kind = "ok"

\* C10: the first load is given index 0, and a load of another URL than an
\* earlier load is given an index greater than that earlier load's.
C10_StrictlyIncreasing ==
    /\ Len(loads) >= 1 => loads[1].textureIndex = 0
    /\ \A l, m \in LoadIds :
          (l < m /\ loads[l].url # loads[m].url) =>
              loads[m].textureIndex > loads[l].textureIndex

\* the url has a load that succeeded
Resolved(url) == LoadsOf(url) \cap FulfilledLoads # {}

\* the step is a loadTexture(url) call
IsCallFor(url) == Len(calls') = Len(calls) + 1 /\ calls'[Len(calls')].url = url

\* C11: once a URL is resolved its LoadedTexture never changes, and every
\* later loadTexture call for it returns that LoadedTexture, starts no load
\* and leaves loadedTextures, loadingPromises, nextTextureIndex and the
\* texture array as they are.
C11_ResolvedIsCached ==
    [][\A url \in Urls :
          Resolved(url) =>
              /\ loadedTextures[url] # NoTexture
              /\ loadedTextures'[url] = loadedTextures[url]
              /\ IsCallFor(url) =>
                     /\ calls'[Len(calls')].result = Ok(loadedTextures[url])
                     /\ calls'[Len(calls')].promise = 0
                     /\ UNCHANGED <<loadedTextures, loadingPromises, nextTextureIndex,
                                    textureArray, loads>>]_vars

C11_Witness ==
    \E c \in CallIds :
        /\ calls[c].gen >= 1
        /\ ~calls[c].fresh
        /\ calls[c].promise = 0
        /\ calls[c].result = Ok(loadedTextures[calls[c].url])


\* a renderLoop tick has been submitted
Ticked == lastSubmit.frame >= 0

\* the positions of the compute passes in the last tick's command buffer
ComputePasses ==
    {k \in DOMAIN lastSubmit.passes : lastSubmit.passes[k].kind = "compute"}

\* C12: in every frame with particleCount > 0 the command buffer holds one
\* simulation step, which reads dynamic buffer frame % 2 and writes dynamic
\* buffer (frame + 1) % 2, never the buffer it reads.
C12_PingPong ==
    (Ticked /\ lastSubmit.uniforms.particleCount > 0) =>
        /\ Cardinality(ComputePasses) = 1
        /\ \A k \in ComputePasses :
              /\ lastSubmit.passes[k].in = lastSubmit.frame % 2
              /\ lastSubmit.passes[k].out = (lastSubmit.frame + 1) % 2
              /\ lastSubmit.passes[k].in # lastSubmit.passes[k].out

C12_Witness ==
    /\ Ticked
    /\ lastSubmit.frame = 1
    /\ lastSubmit.valid
    /\ lastSubmit.uniforms.particleCount > 0
    /\ lastSubmit.passes[1].in = 1
    /\ lastSubmit.passes[1].out = 0

\* C13: in every frame with particleCount > 0 the single submission holds
\* the simulation step followed by the render pass, the render pass takes
\* its instances from the buffer that step writes, and what it draws is
\* what the step left there.
C13_RenderReadsSimOutput ==
    (Ticked /\ lastSubmit.uniforms.particleCount > 0) =>
        /\ Len(lastSubmit.passes) = 2
        /\ lastSubmit.passes[1].kind = "compute"
        /\ lastSubmit.passes[2].kind = "render"
        /\ lastSubmit.passes[2].source = lastSubmit.passes[1].out
        /\ lastSubmit.passes[2].instances = lastSubmit.uniforms.particleCount
        /\ lastSubmit.valid =>
              /\ Len(lastSubmit.drawn) = lastSubmit.uniforms.particleCount
              /\ \A i \in DOMAIN lastSubmit.drawn :
                    /\ lastSubmit.drawn[i] = dynamicBuffers[lastSubmit.passes[1].out][i - 1]
                    /\ lastSubmit.drawn[i] = latest[i]

C13_Witness ==
    /\ Ticked
    /\ lastSubmit.frame = 1
    /\ lastSubmit.valid
    /\ Len(lastSubmit.drawn) >= 2
    /\ lastSubmit.passes[2].source = 0
    /\ lastSubmit.drawn[1].pos # <<0, 0>>

\* C14: at every point where a frame tick can start, every live particle
\* i < particleCount has its latest dynamic state in dynamic buffer
\* frame % 2.
C14_InputBufferIsLatest ==
    \A i \in 0..(particleCount - 1) :
        /\ i \in DOMAIN dynamicBuffers[frame % 2]
        /\ dynamicBuffers[frame % 2][i] = latest[i + 1]

\* C15: no step changes the static record of an index below particleCount.
C15_StaticRecordsKept ==
    [][\A i \in DOMAIN staticBuffer :
          i < particleCount => staticBuffer'[i] = staticBuffer[i]]_vars

C15_Witness ==
    /\ Ticked
    /\ lastSubmit.valid
    /\ lastSubmit.uniforms.particleCount > 0
    /\ particleCount > lastSubmit.uniforms.particleCount
    /\ particleCount <= MAX_PARTICLES
    /\ \A i \in 0..(particleCount - 1) : staticBuffer[i] # NoRecord

\* C16: a step that increments particleCount has written a static record
\* and an initial dynamic record (position at the origin, rotation 0) in
\* both dynamic buffers at the index particleCount had, and no other record.
C16_SpawnWritesThreeRecords ==
    [][particleCount' = particleCount + 1 =>
          /\ particleCount \in DOMAIN staticBuffer
          /\ staticBuffer'[particleCount] # NoRecord
          /\ staticBuffer'[particleCount].textureIndex >= 0
          /\ \A b \in 0..1 :
                /\ dynamicBuffers'[b][particleCount] # NoRecord
                /\ dynamicBuffers'[b][particleCount].pos = <<0, 0>>
                /\ dynamicBuffers'[b][particleCount].rotation = 0
                /\ \A j \in DOMAIN staticBuffer \ {particleCount} :
                      /\ dynamicBuffers'[b][j] = dynamicBuffers[b][j]
                      /\ staticBuffer'[j] = staticBuffer[j]]_vars

\* the step resumes invocation i after a loadTexture call that failed
ResumesAfterFailure(i) ==
    /\ Resumable(i)
    /\ invocations'[i] # invocations[i]
    /\ calls[invocations[i].call].result.kind # "ok"

\* C17: a spawn attempt whose texture resolution failed (load failure or
\* capacity error) leaves particleCount, both dynamic buffers, the static
\* buffer and every live particle's state as they were.
C17_FailedAttemptSpawnsNothing ==
    [][\A i \in InvocationIds :
          ResumesAfterFailure(i) =>
              UNCHANGED <<particleCount, dynamicBuffers, staticBuffer, latest>>]_vars

C17_Witness ==
    \E i \in InvocationIds :
        /\ invocations[i].failed >= 1
        /\ invocations[i].pc = "done"
        /\ particleCount >= 1

\* C18 as stated: an addParticle invocation with a failed texture
\* resolution ends with an error outcome.
C18_FailureSurfaced ==
    \A i \in InvocationIds :
        (invocations[i].pc # "await" /\ invocations[i].failed > 0) =>
            invocations[i].pc = "rejected"

\* C18 amended: every failed texture resolution is caught inside
\* addParticle and reported once with console.error; the invocation goes on
\* with its remaining attempts and never ends with an error outcome.
C18_FailureLogged ==
    \A i \in InvocationIds :
        /\ invocations[i].logged = invocations[i].failed
        /\ invocations[i].pc \in {"await", "done"}

C18_Witness ==
    \E i \in InvocationIds :
        /\ invocations[i].pc = "done"
        /\ invocations[i].failed >= 1
        /\ invocations[i].logged >= 1

\* C19: after any simulation step the position lies within the bounds
\* widened by the particle's half extents: |x| <= canvas aspect ratio +
\* half width, |y| <= 1 + half height.
C19_WithinWidenedBounds ==
    probe.steps >= 1 =>
        /\ probe.d.pos[1] >= -probe.u.aspectRatio - HalfWidth(probe.s)
        /\ probe.d.pos[1] <= probe.u.aspectRatio + HalfWidth(probe.s)
        /\ probe.d.pos[2] >= -BoundY - HalfHeight(probe.s)
        /\ probe.d.pos[2] <= BoundY + HalfHeight(probe.s)

\* a step from outside the viewport, for a particle wider than the viewport
C19_Witness ==
    /\ probe.steps >= 1
    /\ probe.prev.pos[1] = 30
    /\ probe.prev.vel[1] = 4
    /\ HalfWidth(probe.s) > probe.u.aspectRatio
    /\ probe.d.pos[1] < 30

\* the position the last step tested against the boundaries, per axis
Tested(axis) == probe.prev.pos[axis] + probe.prev.vel[axis] * probe.u.deltaTime

Half(axis) == IF axis = 1 THEN HalfWidth(probe.s) ELSE HalfHeight(probe.s)

Bound(axis) == IF axis = 1 THEN probe.u.aspectRatio ELSE BoundY

ClampedLow(axis) == Tested(axis) - Half(axis) < -Bound(axis)

ClampedHigh(axis) == ~ClampedLow(axis) /\ Tested(axis) + Half(axis) > Bound(axis)

\* C20: after a step that clamped at the left or bottom boundary the
\* velocity component is >= 0, after one that clamped at the right or top
\* boundary it is <= 0.
C20_VelocityPointsInward ==
    probe.steps >= 1 =>
        \A axis \in 1..2 :
            /\ ClampedLow(axis) => probe.d.vel[axis] >= 0
            /\ ClampedHigh(axis) => probe.d.vel[axis] <= 0

C20_Witness ==
    /\ probe.steps >= 1
    /\ ClampedLow(1)
    /\ probe.prev.vel[1] > 0
    /\ probe.d.vel[1] > 0
    /\ ClampedHigh(2)
    /\ probe.prev.vel[2] < 0
    /\ probe.d.vel[2] < 0


\* the probed particle started as ScenarioInput
InScenario ==
    /\ probe.s = ScenarioInput.s
    /\ probe.u = ScenarioInput.u
    /\ probe.steps = 1
    /\ probe.prev = ScenarioInput.d

\* C21: the step on a particle at the origin with velocity (0.9, 0),
\* deltaTime 1.0, viewport half width 0.5 and particle half width 0.1 gives
\* position.x = 0.4 and velocity.x = -0.9; and every step whose moved
\* particle crosses the right edge only (its left edge still inside) gives
\* position.x = bound - half width and velocity.x = -|velocity.x|.
C21_RightEdgeScenario ==
    /\ InScenario => (probe.d.pos[1] = 8 /\ probe.d.vel[1] = -18)
    /\ (probe.steps >= 1 /\ ClampedHigh(1)) =>
          /\ probe.d.pos[1] = probe.u.aspectRatio - HalfWidth(probe.s)
          /\ probe.d.vel[1] = -Abs(probe.prev.vel[1])

C21_Witness ==
    /\ InScenario
    /\ Tested(1) = 18
    /\ ClampedHigh(1)
    /\ probe.d.pos = <<8, 0>>
    /\ probe.d.vel = <<-18, 0>>

\* the particle's extent on the axis is within the viewport's
Fits(axis) == Half(axis) <= Bound(axis)

\* the particle lies fully inside the viewport on the axis
FullyInside(axis) ==
    /\ probe.d.pos[axis] - Half(axis) >= -Bound(axis)
    /\ probe.d.pos[axis] + Half(axis) <= Bound(axis)

\* C28 as stated: after any simulation step the particle lies fully inside
\* the viewport on each axis, also when its extent is larger than the
\* viewport's.
C28_FullyInside ==
    probe.steps >= 1 => \A axis \in 1..2 : FullyInside(axis)

\* C28 amended: after any simulation step a particle whose extent fits the
\* viewport on an axis lies fully inside on that axis; a particle whose
\* extent is larger has one edge on the boundary (the low edge when its
\* low edge had crossed, else the high edge) and covers the viewport.
C28_InsideWhenItFits ==
    probe.steps >= 1 =>
        \A axis \in 1..2 :
            /\ Fits(axis) => FullyInside(axis)
            /\ ~Fits(axis) =>
                  /\ ClampedLow(axis) => probe.d.pos[axis] - Half(axis) = -Bound(axis)
                  /\ ~ClampedLow(axis) => probe.d.pos[axis] + Half(axis) = Bound(axis)
                  /\ probe.d.pos[axis] - Half(axis) <= -Bound(axis)
                  /\ probe.d.pos[axis] + Half(axis) >= Bound(axis)

\* a wide particle after a step, and a fitting one brought back inside
C28_Witness ==
    /\ probe.steps >= 1
    /\ ~Fits(1)
    /\ probe.d.pos[1] - Half(1) = -Bound(1)
    /\ Fits(2)
    /\ ClampedHigh(2)
    /\ FullyInside(2)

\* the sign of a number
Sign(x) == IF x < 0 THEN -1 ELSE IF x > 0 THEN 1 ELSE 0

\* C29: a simulation step keeps the magnitude of both velocity components;
\* the sign of a component changes only on an axis the step clamped.
C29_SpeedKept ==
    probe.steps >= 1 =>
        \A axis \in 1..2 :
            /\ Abs(probe.d.vel[axis]) = Abs(probe.prev.vel[axis])
            /\ Sign(probe.d.vel[axis]) # Sign(probe.prev.vel[axis]) =>
                  (ClampedLow(axis) \/ ClampedHigh(axis))

C29_Witness ==
    /\ probe.steps >= 1
    /\ ClampedLow(1)
    /\ probe.prev.vel[1] = -4
    /\ probe.d.vel[1] = 4
    /\ ~ClampedLow(2)
    /\ ~ClampedHigh(2)
    /\ probe.prev.vel[2] = -4
    /\ probe.d.vel[2] = -4


\* no continuation of addParticle is waiting to run
NothingToResume == \A i \in InvocationIds : ~Resumable(i)

\* C22: once started, the frame loop always has its next tick scheduled
\* and, whatever the spawn attempts did, the next tick can run; every tick
\* submits,
\* advances frame by one and schedules the next; a tick with
\* particleCount = 0 records no compute pass and no draw.
C22_LoopKeepsRunning ==
    /\ [](page = Running =>
             /\ scheduled
             /\ (NothingToResume /\ frame < MaxFrames) => ENABLED RenderLoop)
    /\ [][frame' # frame =>
             /\ frame' = frame + 1
             /\ lastSubmit'.frame = frame
             /\ scheduled'
             /\ particleCount = 0 =>
                   /\ lastSubmit'.uniforms.particleCount = 0
                   /\ Len(lastSubmit'.passes) = 1
                   /\ lastSubmit'.passes[1].kind = "render"
                   /\ lastSubmit'.passes[1].instances = 0]_vars

\* a tick with no particle has run, a spawn attempt has failed and the next
\* tick can run
C22_Witness ==
    /\ Ticked
    /\ frame = 1
    /\ lastSubmit.uniforms.particleCount = 0
    /\ particleCount = 0
    /\ \E i \in InvocationIds : invocations[i].failed >= 1
    /\ ENABLED RenderLoop

\* the passes of its loop invocation i has begun
Attempts(i) ==
    IF invocations[i].pc = "await" THEN invocations[i].size - invocations[i].cnt
    ELSE invocations[i].size

\* the particles invocation i has added
Spawned(i) ==
    Attempts(i) - invocations[i].failed - (IF invocations[i].pc = "await" THEN 1 ELSE 0)

RECURSIVE SpawnedByFirst(_)
SpawnedByFirst(n) == IF n = 0 THEN 0 ELSE SpawnedByFirst(n - 1) + Spawned(n)

\* the records of the store that are within the buffers
StoredIndices == {i \in DOMAIN staticBuffer : i < particleCount}

\* C26: a frame tick can run in every state in which no addParticle
\* continuation is due, however many loads are in flight, and it leaves the
\* loads and the awaiting invocations as they are; every stored particle
\* refers to a resolved texture, and the particle store grows only by one,
\* in the continuation of an invocation whose load has resolved.
C26_LoadsNeverBlockFrames ==
    /\ []((scheduled /\ NothingToResume /\ frame < MaxFrames) => ENABLED RenderLoop)
    /\ [](\A i \in StoredIndices :
             /\ staticBuffer[i] # NoRecord
             /\ Resolved(staticBuffer[i].bitmap)
             /\ staticBuffer[i].textureIndex >= 0)
    /\ [][/\ frame' # frame =>
                UNCHANGED <<loaderVars, invocations, particleCount, staticBuffer>>
          /\ particleCount' # particleCount =>
                /\ particleCount' = particleCount + 1
                /\ \E i \in InvocationIds :
                      /\ invocations[i].pc = "await"
                      /\ invocations'[i] # invocations[i]
                      /\ Resolves(calls[invocations[i].call].result)
                      /\ Resolved(calls[invocations[i].call].url)]_vars

\* a load is in flight, its particle is not in the store, ticks have run
\* and the next can run
C26_Witness ==
    /\ PendingLoads # {}
    /\ particleCount = 1
    /\ Ticked
    /\ lastSubmit.uniforms.particleCount = 1
    /\ frame < MaxFrames
    /\ ENABLED RenderLoop
    /\ \E i \in InvocationIds : Attempts(i) = 2 /\ Spawned(i) = 1

\* C27 as stated: an invocation of addParticle attempts one spawn and adds
\* at most one particle.
C27_OneSpawnPerInvocation ==
    \A i \in InvocationIds : Attempts(i) <= 1 /\ Spawned(i) <= 1

\* C27 amended: an invocation of addParticle that does not find the store
\* at capacity attempts 3, 4 or 5 spawns, one after the other, and adds at
\* most as many particles; particleCount is the sum over the invocations.
C27_BatchPerInvocation ==
    /\ \A i \in InvocationIds :
          /\ invocations[i].size \in {0, 3, 4, 5}
          /\ invocations[i].size = 0 => invocations[i].pc = "done"
          /\ Attempts(i) >= 0
          /\ Attempts(i) <= invocations[i].size
          /\ invocations[i].pc = "done" => Attempts(i) = invocations[i].size
          /\ Spawned(i) >= 0
          /\ Spawned(i) <= Attempts(i)
    /\ particleCount = SpawnedByFirst(Len(invocations))

\* an invocation has made four attempts and added four particles
C27_Witness ==
    \E i \in InvocationIds :
        /\ invocations[i].pc = "done"
        /\ invocations[i].size = 4
        /\ Spawned(i) = 4
        /\ particleCount = 4


\* C23: a resize sets the canvas pixel size to floor(client size *
\* devicePixelRatio) and configures the surface; it changes neither
\* particleCount, frame, the dynamic buffers, the static buffer nor the
\* texture cache.
C23_ResizeKeepsParticles ==
    [][(page.phase = "running" /\ canvas' # canvas) =>
          /\ canvas'.configured
          /\ \A k \in 1..2 : canvas'.pixels[k] = (canvas'.client[k] * canvas'.ratio) \div 2
          /\ UNCHANGED <<particleCount, frame, dynamicBuffers, staticBuffer, latest,
                         loadedTextures, loadingPromises, nextTextureIndex, textureArray,
                         invocations, scheduled>>]_vars

\* the last tick drew particles on the square canvas, which has since been
\* resized
C23_Witness ==
    /\ Ticked
    /\ lastSubmit.uniforms.particleCount >= 1
    /\ lastSubmit.uniforms.aspectRatio = 20
    /\ particleCount >= 1
    /\ canvas.client = <<2, 4>>
    /\ canvas.pixels = <<3, 6>>

\* C24: when startup has found the GPU capability missing, init has
\* returned false, no frame is scheduled or has run, no button or resize
\* listener is registered, the add button is hidden and the fallback is
\* shown.
C24_UnsupportedFallback ==
    (page.phase # "loading" /\ page.gpu # "ok") =>
        /\ page.init = "false"
        /\ ~scheduled
        /\ frame = 0
        /\ ~page.listeners
        /\ ~page.resizeListener
        /\ invocations = <<>>
        /\ ~page.buttonShown
        /\ page.fallback # "hidden"

\* C25: after a release event and until the next press no hold timeout and
\* no spawn interval is armed.
C25_NoTimerAfterRelease ==
    hold.released => (hold.timeouts = {} /\ hold.intervals = {})


\* the load that has url in flight
InFlightLoad(url) == loads[loadingPromises[url]]

\* C30: every URL that is in flight leaves the in-flight set; the step on
\* which it leaves is the end of its load, after which the URL is resolved
\* if the load succeeded and neither resolved nor in flight if it failed.
C30_InFlightLeaves ==
    /\ \A url \in Urls : IsLoading(url) ~> ~IsLoading(url)
    /\ [][\A url \in Urls :
             (IsLoading(url) /\ loadingPromises'[url] = 0) =>
                 /\ InFlightLoad(url).status = "pending"
                 /\ loads'[loadingPromises[url]].status \in {"fulfilled", "rejected"}
                 /\ loads'[loadingPromises[url]].status = "fulfilled" =>
                        loadedTextures'[url] # NoTexture
                 /\ loads'[loadingPromises[url]].status = "rejected" =>
                        loadedTextures'[url] = NoTexture]_vars

C30_Witness ==
    \E l1 \in FulfilledLoads, l2 \in RejectedLoads :
        /\ ~IsLoading(loads[l1].url)
        /\ IsLoaded(loads[l1].url)
        /\ ~IsLoading(loads[l2].url)
        /\ ~IsLoaded(loads[l2].url)
        /\ PendingLoads = {}

\* ------------------------------------------------------------------- C31
\* the texture indices handed out so far: those of the loads started and
\* those of the cached LoadedTextures
AssignedIndices ==
    {loads[l].textureIndex : l \in LoadIds} \cup
    {loadedTextures[url].textureIndex : url \in {u \in Urls : IsLoaded(u)}}

\* C31: every textureIndex assigned to a URL is a layer of the texture
\* array, 0 <= textureIndex < maxTextures, and the next-slot counter never
\* exceeds maxTextures.
C31_IndexWithinLayers ==
    /\ \A i \in AssignedIndices : i >= 0 /\ i < maxTextures
    /\ nextTextureIndex <= maxTextures

\* ------------------------------------------------------------------- C32
\* the step starts an addParticle invocation
StartsInvocation == Len(invocations') = Len(invocations) + 1

\* the step is the touchend handler calling addParticle: the only step that
\* ends the press and starts an invocation
IsTouchEndShot == StartsInvocation /\ ~hold.released /\ hold'.released

\* the step is the click handler calling addParticle: it starts an
\* invocation, leaves the timers alone, and no interval is armed that could
\* have started it
IsClickShot == StartsInvocation /\ hold' = hold /\ hold.intervals = {}

\* C32: the single-shot addParticle of the click handler and of the
\* touchend handler runs only when no hold timeout has run out since the
\* press began: a press that became a hold triggers no single shot when it
\* is released.
C32_NoSingleShotAfterHold ==
    [][(IsTouchEndShot \/ IsClickShot) => ~hold.wasHold]_vars

\* ------------------------------------------------------------------- C33
\* the records of particle index j in the three buffers are left as they are
RecordsKept(j) ==
    /\ staticBuffer'[j] = staticBuffer[j]
    /\ dynamicBuffers'[0][j] = dynamicBuffers[0][j]
    /\ dynamicBuffers'[1][j] = dynamicBuffers[1][j]

\* C33: however addParticle invocations overlap, a step that spawns a
\* particle increases particleCount by exactly 1 and writes the index
\* particleCount had, which no spawn has written before, and no other
\* index; the buffers change in no other step; so the records below
\* particleCount, and only they, have been written, each by one spawn.
C33_OneSpawnPerIndex ==
    /\ [](/\ Len(latest) = particleCount
          /\ \A j \in DOMAIN staticBuffer :
                j < particleCount <=> staticBuffer[j] # NoRecord)
    /\ [][/\ particleCount' # particleCount =>
                /\ particleCount' = particleCount + 1
                /\ Len(latest') = Len(latest) + 1
                /\ \A j \in DOMAIN staticBuffer \ {particleCount} : RecordsKept(j)
                /\ particleCount \in DOMAIN staticBuffer =>
                      /\ staticBuffer[particleCount] = NoRecord
                      /\ staticBuffer'[particleCount] # NoRecord
          /\ particleCount' = particleCount =>
                \A j \in DOMAIN staticBuffer : RecordsKept(j)]_vars

\* two invocations overlap: each has spawned a particle and awaits a
\* further load, and every index below particleCount holds a record
C33_Witness ==
    /\ Len(invocations) = 2
    /\ particleCount >= 3
    /\ \A i \in InvocationIds :
          /\ Spawned(i) >= 1
          /\ invocations[i].pc = "await"
    /\ \A j \in 0..(particleCount - 1) : staticBuffer[j] # NoRecord

\* ------------------------------------------------------------------- C34
\* C34: for every live particle, the layer of the texture array named by
\* its textureIndex holds the image of the URL chosen for it at spawn.
C34_LayerHoldsOwnImage ==
    \A i \in StoredIndices :
        staticBuffer[i] # NoRecord =>
            textureArray[staticBuffer[i].textureIndex] = staticBuffer[i].bitmap

\* ------------------------------------------------------------------- C35
\* this.loadedTextures.size (getLoadedCount)
LoadedCount == Cardinality({url \in Urls : IsLoaded(url)})

\* C35: with no call of clear(), nextTextureIndex equals the number of
\* resolved URLs in every state, and no step decreases it.
C35_CounterIsLoadedCount ==
    /\ [](nextTextureIndex = LoadedCount)
    /\ [][nextTextureIndex' >= nextTextureIndex]_vars

\* loads that overlapped have succeeded, one load has failed, and the
\* counter has passed maxTextures
C35_Witness ==
    /\ nextTextureIndex = maxTextures + 1
    /\ LoadedCount = maxTextures + 1
    /\ RejectedLoads # {}

\* ------------------------------------------------------------------- C36
\* the step settles a load that was in flight when clear() was called
SettlesClearedLoad(l) ==
    /\ loads[l].cleared
    /\ loads[l].status = "pending"
    /\ loads'[l].status # "pending"

\* C36: a load that was in flight when clear() was called changes, when it
\* completes, neither loadedTextures nor nextTextureIndex nor
\* loadingPromises; and nextTextureIndex equals the number of resolved
\* URLs in every state, after clear() too.
C36_ClearResetsForGood ==
    /\ [](nextTextureIndex = LoadedCount)
    /\ [][\A l \in LoadIds :
             SettlesClearedLoad(l) =>
                 UNCHANGED <<loadedTextures, nextTextureIndex, loadingPromises>>]_vars

\* ------------------------------------------------------------------- C37
\* no element occurs twice in the sequence q
NoRepeats(q) == \A j, k \in DOMAIN q : j # k => q[j] # q[k]

\* C37: between two refills of the pending queue consumeAudio returns no
\* audio index twice; the pending queue holds no index twice and only
\* loaded indices; and consumeAudio returns null only when no audio is
\* loaded.
C37_ShuffleBag ==
    /\ NoRepeats(voice.returned)
    /\ \A k \in DOMAIN voice.returned : HasAudio(voice, voice.returned[k])
    /\ NoRepeats(voice.pendingQueue)
    /\ \A k \in DOMAIN voice.pendingQueue : HasAudio(voice, voice.pendingQueue[k])
    /\ NoRepeats(voice.loadedAudios)
    /\ voice.last = "null" => Len(voice.loadedAudios) = 0
    /\ (voice.last = "audio" /\ Len(voice.returned) > 0) =>
          \A k \in DOMAIN voice.pendingQueue :
              voice.pendingQueue[k] # voice.returned[Len(voice.returned)]

\* every audio is loaded, one of them after a failed attempt; consumeAudio
\* has refilled the queue and has since returned every audio but one
C37_Witness ==
    /\ voice.refilled
    /\ Len(voice.loadedAudios) = VOICE_TOTAL_COUNT
    /\ Len(voice.returned) = VOICE_TOTAL_COUNT - 1
    /\ Len(voice.pendingQueue) = 1
    /\ voice.last = "audio"
    /\ voice.failures > 0

\* ------------------------------------------------------------------- C38
\* C38: when consumeAudio keeps being called and every load ends, every
\* audio index whose load does not fail every time is eventually loaded.
C38_EveryGoodAudioLoads ==
    \A i \in AudioIndices : (i \notin voice.failing) ~> HasAudio(voice, i)
====
